---- MODULE Spec2Model ----
(***************************************************************************)
(* A model of golobby/sql: the fluent query builder (builder/query.go) and *)
(* the ORM operations built on the statement builders (orm.go).            *)
(*                                                                         *)
(* A Go string is a sequence of atoms; an atom is a word, a punctuation    *)
(* mark or one space.  Concatenation is \o, strings.Join is Join, and the  *)
(* empty string is << >>.                                                  *)
(***************************************************************************)
EXTENDS Integers, Sequences, FiniteSets, TLC

\* ------------------------------------------------------------------ bounds

\* Builder calls (Table, Select, Where, And, ...) made on one query.
MaxCalls == 4

\* Non-primary-key columns of the Post entity.
MaxCols == 2

\* Rows the database can hold (its auto-increment ids are 1..MaxId).
MaxId == 2

\* ----------------------------------------------------------------- strings

SP == <<" ">>

RECURSIVE Join(_, _)
\* strings.Join(list, sep)
Join(list, sep) ==
    IF Len(list) = 0 THEN << >>
    ELSE IF Len(list) = 1 THEN list[1]
    ELSE list[1] \o sep \o Join(Tail(list), sep)

\* Whether atom a occurs in string s.
HasAtom(s, a) == \E i \in 1..Len(s) : s[i] = a

\* Position of the first occurrence of an atom of set A in s; Len(s)+1 if none.
FirstOf(s, A) ==
    IF \E i \in 1..Len(s) : s[i] \in A
    THEN CHOOSE i \in 1..Len(s) : s[i] \in A /\ \A j \in 1..(i-1) : s[j] \notin A
    ELSE Len(s) + 1

\* ---------------------------------------------------- builder/query.go

\* Inputs of the builder calls.
Tables == { << >>, <<"t">> }
ColLists == { << <<"a">>, <<"b">> >> }
PartLists == { << <<"y", " ", "=", " ", "?">> >>, << <<"x">>, <<"=", " ", "?">> >> }
JoinTables == { <<"u">> }
ConnParts == { << <<"x">>, <<"=", " ", "?">> >> }
OnParts == { << <<"u.id", " ", "=", " ", "t.id">> >> }
Contexts == { "ctx1", "ctx2" }
ArgLists == { <<1>> }
Background == "background"

Connectors == { "AND", "OR", "NOT" }
JoinTypes == { <<"INNER">>, <<"RIGHT">>, <<"LEFT">>, <<"FULL", " ", "OUTER">> }

VARIABLES
    q,          \* the query: table, projected, filters, orderBy, groupBy, joins
    whereLog,   \* history: the Where/And/Or/Not calls made, in call order
    joinLog,    \* history: the join calls made, in call order
    called,     \* history: the builder methods called on q
    ncalls,     \* history: how many builder calls were made
    last,       \* the most recent terminal call and what it returned
    dbCall      \* the call the database handle received from it, if any

bvars == <<q, whereLog, joinLog, called, ncalls, last, dbCall>>

VARIABLES
    dialect,    \* the connection's dialect (a key of Dialects)
    ncols,      \* how many non-primary-key columns the Post entity declares
    relations,  \* schema.relations of each entity type: target type -> config
    pk,         \* each entity object's primary-key field
    dbNextId,   \* the database: the id its next inserted row gets
    saved,      \* history: the entities an inserting Save succeeded for
    result,     \* the most recent ORM call and what it returned
    stmt        \* the call the database handle received from it, if any

ovars == <<dialect, ncols, relations, pk, dbNextId, saved, result, stmt>>

VARIABLES
    globalORM,  \* the connection registry: name -> Connection
    opened,     \* history: the drivers getDB was called with
    initCall,   \* the most recent Initialize call: its configs, getDB's answers, its error
    dbRows,     \* the rows the database returned to the most recent Query / QueryRaw
    output      \* the sequence the most recent Query / QueryRaw returned

xvars == <<globalORM, opened, initCall, dbRows, output>>

vars == <<q, whereLog, joinLog, called, ncalls, last, dbCall,
          dialect, ncols, relations, pk, dbNextId, saved, result, stmt,
          globalORM, opened, initCall, dbRows, output>>

NilClause == [set |-> FALSE, distinct |-> FALSE, desc |-> FALSE, columns |-> << >>]

\* NewQuery
NewQuery ==
    [ table |-> << >>, projected |-> NilClause, filters |-> << >>,
      orderBy |-> NilClause, groupBy |-> NilClause, joins |-> << >> ]

NoCall == [fn |-> "none", ctx |-> "", sql |-> << >>, args |-> << >>]
NoResult == [op |-> "none", sql |-> << >>, err |-> "", ctx |-> "", args |-> << >>]

ErrEmptyTable == "table name cannot be empty"

\* selectClause.String
SelectString(c) ==
    (IF c.distinct THEN <<"DISTINCT", " ">> ELSE << >>) \o Join(c.columns, <<",", " ">>)

\* orderbyClause.String
OrderByString(c) ==
    Join(c.columns, <<",", " ">>) \o (IF c.desc THEN <<" ", "DESC">> ELSE << >>)

\* groupByClause.String
GroupByString(c) == Join(c.columns, <<",", " ">>)

\* joinClause.String
JoinString(j) == j.joinType \o <<" ", "JOIN", " ">> \o j.table \o <<" ", "ON", " ">> \o j.cond

\* whereClause.String
WhereString(w) == Join(w.conds, SP)

\* WhereSections writing the WHERE keyword whether or not a filter was added.
WhereSectionsAlways(qq) ==
    << <<"WHERE">> >> \o [i \in 1..Len(qq.filters) |-> WhereString(qq.filters[i])]

\* The sections of SQL() that follow "FROM <table>", in the order SQL() appends them.
WhereSections(qq) ==
    IF qq.filters # << >>
    THEN << <<"WHERE">> >> \o [i \in 1..Len(qq.filters) |-> WhereString(qq.filters[i])]
    ELSE << >>

OrderBySections(qq) ==
    IF qq.orderBy.set THEN << <<"ORDER", " ", "BY">>, OrderByString(qq.orderBy) >> ELSE << >>

GroupBySections(qq) ==
    IF qq.groupBy.set THEN << <<"GROUP", " ", "BY">>, GroupByString(qq.groupBy) >> ELSE << >>

JoinSections(qq) == [i \in 1..Len(qq.joins) |-> JoinString(qq.joins[i])]

\* The selectClause SQL() renders: q.projected, or the default "*" when it is nil.
Projected(qq) ==
    IF qq.projected.set THEN qq.projected
    ELSE [set |-> TRUE, distinct |-> FALSE, desc |-> FALSE, columns |-> << <<"*">> >>]

\* TailSections with the joins where standard SQL has them, before WHERE.
TailSectionsJoinsFirst(qq) ==
    JoinSections(qq) \o WhereSections(qq) \o OrderBySections(qq) \o GroupBySections(qq)

TailSections(qq) ==
    WhereSections(qq) \o OrderBySections(qq) \o GroupBySections(qq) \o JoinSections(qq)

\* SQL without the check of the table name.
SQLUnchecked(qq) ==
    [ sql |-> Join(<< <<"SELECT">>, SelectString(Projected(qq)),
                      <<"FROM", " ">> \o qq.table >> \o TailSections(qq), SP),
      err |-> "" ]

\* query.SQL: the string and the error it returns
SQL(qq) ==
    IF qq.table = << >>
    THEN [sql |-> << >>, err |-> ErrEmptyTable]
    ELSE [ sql |-> Join(<< <<"SELECT">>, SelectString(Projected(qq)),
                           <<"FROM", " ">> \o qq.table >> \o TailSections(qq), SP),
           err |-> "" ]

\* query.SQL's effect on the query: a nil q.projected becomes the "*" clause.
AfterSQL(qq) == [qq EXCEPT !.projected = Projected(qq)]

\* A builder call: one more call, and the previous terminal result is gone.
Built(method) ==
    /\ ncalls < MaxCalls
    /\ ncalls' = ncalls + 1
    /\ called' = called \cup {method}
    /\ last' = NoResult
    /\ dbCall' = NoCall
    /\ UNCHANGED ovars
    /\ UNCHANGED xvars

Table(t) ==
    /\ Built("Table")
    /\ q' = [q EXCEPT !.table = t]
    /\ UNCHANGED <<whereLog, joinLog>>

Select(columns) ==
    /\ Built("Select")
    /\ q' = [q EXCEPT !.projected =
                [set |-> TRUE, distinct |-> FALSE, desc |-> FALSE, columns |-> columns]]
    /\ UNCHANGED <<whereLog, joinLog>>

AddJoin(joinType, table) ==
    /\ Built("Join")
    /\ q' = [q EXCEPT !.joins = Append(@, [table |-> table, joinType |-> joinType, cond |-> << >>])]
    /\ joinLog' = Append(joinLog, joinType)
    /\ UNCHANGED whereLog

InnerJoin(table) == AddJoin(<<"INNER">>, table)

RightJoin(table) == AddJoin(<<"RIGHT">>, table)

LeftJoin(table) == AddJoin(<<"LEFT">>, table)

FullOuterJoin(table) == AddJoin(<<"FULL", " ", "OUTER">>, table)

\* joinClause.On, on the i-th join of the query
On(i, parts) ==
    /\ i \in 1..Len(q.joins)
    /\ Built("On")
    /\ q' = [q EXCEPT !.joins[i].cond = Join(parts, SP)]
    /\ UNCHANGED <<whereLog, joinLog>>

GroupBy(columns) ==
    /\ Built("GroupBy")
    /\ q' = [q EXCEPT !.groupBy =
                [set |-> TRUE, distinct |-> FALSE, desc |-> FALSE, columns |-> columns]]
    /\ UNCHANGED <<whereLog, joinLog>>

OrderBy(columns) ==
    /\ Built("OrderBy")
    /\ q' = [q EXCEPT !.orderBy =
                [set |-> TRUE, distinct |-> FALSE, desc |-> FALSE, columns |-> columns]]
    /\ UNCHANGED <<whereLog, joinLog>>

Where(parts) ==
    /\ Built("Where")
    /\ q' = [q EXCEPT !.filters = Append(@, [conds |-> << Join(parts, SP) >>])]
    /\ whereLog' = Append(whereLog, [conn |-> "", cond |-> Join(parts, SP), clause |-> Len(q.filters) + 1])
    /\ UNCHANGED joinLog

\* Connect writing the connector with no space after it.
ConnectNoSpace(i, conn, parts) ==
    /\ i \in 1..Len(q.filters)
    /\ Built(conn)
    /\ q' = [q EXCEPT !.filters[i].conds = Append(@, <<conn>> \o Join(parts, SP))]
    /\ whereLog' = Append(whereLog, [conn |-> conn, cond |-> Join(parts, SP), clause |-> i])
    /\ UNCHANGED joinLog

\* whereClause.And / Or / Not share this shape: conds = append(conds, K+" "+Join(parts))
Connect(i, conn, parts) ==
    /\ i \in 1..Len(q.filters)
    /\ Built(conn)
    /\ q' = [q EXCEPT !.filters[i].conds = Append(@, <<conn, " ">> \o Join(parts, SP))]
    /\ whereLog' = Append(whereLog, [conn |-> conn, cond |-> Join(parts, SP), clause |-> i])
    /\ UNCHANGED joinLog

And(i, parts) == Connect(i, "AND", parts)

Or(i, parts) == Connect(i, "OR", parts)

Not(i, parts) == Connect(i, "NOT", parts)

\* exec(ctx, db, query, args): one ExecContext call on the handle
exec(ctx, s, args) == [fn |-> "ExecContext", ctx |-> ctx, sql |-> s, args |-> args]

\* _bind(ctx, db, v, query, args): one QueryContext call on the handle, then the rows bound to v
bind(ctx, s, args) == [fn |-> "QueryContext", ctx |-> ctx, sql |-> s, args |-> args]

\* A terminal call: SQL() runs first (and fills q.projected); on its error the
\* error is returned and the handle is not used.
Terminal(op, ctx, args, call) ==
    /\ q' = AfterSQL(q)
    /\ last' = [op |-> op, sql |-> SQL(q).sql, err |-> SQL(q).err, ctx |-> ctx, args |-> args]
    /\ dbCall' = IF SQL(q).err # "" THEN NoCall ELSE call
    /\ UNCHANGED <<whereLog, joinLog, called, ncalls>>
    /\ UNCHANGED ovars
    /\ UNCHANGED xvars

SQLCall == Terminal("SQL", "", << >>, NoCall)

Exec(args) == Terminal("Exec", "", args, exec(Background, SQL(q).sql, args))

ExecContext(ctx, args) == Terminal("ExecContext", ctx, args, exec(Background, SQL(q).sql, args))

Bind(args) == Terminal("Bind", "", args, bind(Background, SQL(q).sql, args))

BindContext(ctx, args) == Terminal("BindContext", ctx, args, bind(ctx, SQL(q).sql, args))

\* ------------------------------------------------------------------ orm.go

Digits == <<"0", "1", "2", "3", "4", "5", "6", "7", "8", "9">>

RECURSIVE Sprint(_)
\* fmt.Sprint of a non-negative integer
Sprint(k) ==
    IF k < 10 THEN <<Digits[k + 1]>>
    ELSE Sprint(k \div 10) \o <<Digits[(k % 10) + 1]>>

\* An argument value (interface{}): a scalar, or a slice of argument values.
V(n) == [slice |-> FALSE, n |-> n, items |-> << >>]
Slice(items) == [slice |-> TRUE, n |-> 0, items |-> items]

\* querybuilder.Dialects
Dialects ==
    [ MySQL      |-> [PlaceholderChar |-> <<"?">>, IncludeIndexInPlaceholder |-> FALSE],
      SQLite3    |-> [PlaceholderChar |-> <<"?">>, IncludeIndexInPlaceholder |-> FALSE],
      PostgreSQL |-> [PlaceholderChar |-> <<"$">>, IncludeIndexInPlaceholder |-> TRUE] ]

DialectNames == {"MySQL", "SQLite3", "PostgreSQL"}

\* PlaceHolderGenerators.Postgres / MySQL
Postgres(n) == [i \in 1..n |-> <<"$">> \o Sprint(i)]
MySQL(n) == [i \in 1..n |-> <<"?">>]

\* The entity types, their tables and the entity objects of the model.
Types == {"Post", "Comment"}
Entities == {"p1", "p2", "c1"}
TypeOf == [p1 |-> "Post", p2 |-> "Post", c1 |-> "Comment"]
Base == [p1 |-> 10, p2 |-> 20, c1 |-> 30]
TableOf == [Post |-> <<"posts">>, Comment |-> <<"comments">>]

\* pluralize.Singular on the tables of the model
Singular(t) == IF t = <<"posts">> THEN <<"post">> ELSE IF t = <<"comments">> THEN <<"comment">> ELSE t

\* schema.fields: the column names in declaration order
Fields(T) ==
    IF T = "Post" THEN << <<"id">> >> \o [i \in 1..ncols |-> <<"col">> \o Sprint(i)]
    ELSE << <<"id">>, <<"post", "_id">>, <<"text">> >>

\* schema.pkName
pkName(T) == <<"id">>

RECURSIVE Without(_, _)
Without(s, x) ==
    IF s = << >> THEN << >>
    ELSE IF Head(s) = x THEN Without(Tail(s), x)
    ELSE <<Head(s)>> \o Without(Tail(s), x)

\* schema.Columns(withPK)
Columns(T, withPK) == IF withPK THEN Fields(T) ELSE Without(Fields(T), pkName(T))

\* genericGetPKValue
genericGetPKValue(e) == V(pk[e])

\* The value an entity holds in its i-th field.
FieldValue(e, i) ==
    IF Fields(TypeOf[e])[i] = pkName(TypeOf[e]) THEN V(pk[e]) ELSE V(Base[e] + i)

RECURSIVE ValuesFrom(_, _, _)
ValuesFrom(e, i, withPK) ==
    IF i > Len(Fields(TypeOf[e])) THEN << >>
    ELSE IF ~withPK /\ Fields(TypeOf[e])[i] = pkName(TypeOf[e]) THEN ValuesFrom(e, i + 1, withPK)
    ELSE <<FieldValue(e, i)>> \o ValuesFrom(e, i + 1, withPK)

\* genericValuesOf(obj, withPK)
genericValuesOf(e, withPK) == ValuesFrom(e, 1, withPK)

\* genericSetPkValue
genericSetPkValue(e, id) == [pk EXCEPT ![e] = id]

\* WhereHelpers.Equal
Equal(col, ph) == col \o <<"=">> \o ph

\* querybuilder.Insert: Table, Into, Values (one call per row), WithArgs, Build
InsertBuild(table, cols, rows, args) ==
    [ sql |-> <<"INSERT", " ", "INTO", " ">> \o table \o <<" ", "(">> \o Join(cols, <<",">>)
              \o <<")", " ", "VALUES", " ">>
              \o Join([i \in 1..Len(rows) |-> <<"(">> \o Join(rows[i], <<",">>) \o <<")">>], <<",">>),
      args |-> args ]

\* querybuilder.UpdateStmt: Table, Where, Set (one call per column), WithArgs, Build
UpdateBuild(table, where, sets, args) ==
    [ sql |-> <<"UPDATE", " ">> \o table \o <<" ", "SET", " ">>
              \o Join([i \in 1..Len(sets) |-> Equal(sets[i].Key, sets[i].Value)], <<",">>)
              \o <<" ", "WHERE", " ">> \o where,
      args |-> args ]

\* querybuilder.Delete: Table, Where, WithArgs, Build
DeleteBuild(table, where, args) ==
    [ sql |-> <<"DELETE", " ", "FROM", " ">> \o table \o <<" ", "WHERE", " ">> \o where,
      args |-> args ]

\* querybuilder.Select: Select, From, Where, WithArgs, Build
SelectBuild(cols, table, where, args) ==
    [ sql |-> <<"SELECT", " ">> \o (IF cols = << >> THEN <<"*">> ELSE Join(cols, <<",">>))
              \o <<" ", "FROM", " ">> \o table \o <<" ", "WHERE", " ">> \o where,
      args |-> args ]

NoStmt == [fn |-> "none", sql |-> << >>, args |-> << >>]
NoORMResult == [op |-> "none", objs |-> << >>, out |-> "", err |-> ""]

\* db.Exec(q, args...) / db.Query(q, args...) / db.QueryContext(ctx, q, args...)
DBExec(sql, args) == [fn |-> "Exec", sql |-> sql, args |-> args]
DBQuery(sql, args) == [fn |-> "Query", sql |-> sql, args |-> args]
DBQueryContext(sql, args) == [fn |-> "QueryContext", sql |-> sql, args |-> args]

\* What the database answers to an Exec and to a Query.
ExecOutcomes == {"ok", "execErr", "idErr"}
QueryOutcomes == {"ok", "err"}

\* The dialect's placeholder for parameter idx, as Find, Update, Delete and the
\* relation functions build it.
Placeholder(idx) ==
    LET d == Dialects[dialect]
    IN  IF d.IncludeIndexInPlaceholder THEN d.PlaceholderChar \o Sprint(idx)
        ELSE d.PlaceholderChar

\* The row placeholders Insert and InsertAll generate for n columns.
RowPlaceholders(n) ==
    IF Dialects[dialect].PlaceholderChar = <<"$">> THEN Postgres(n) ELSE MySQL(n)

\* Insert, up to the Exec call: the statement and the arguments it passes.
InsertStmt(e) ==
    LET cols == Columns(TypeOf[e], FALSE)
        b == InsertBuild(TableOf[TypeOf[e]], cols, <<RowPlaceholders(Len(cols))>>,
                         genericValuesOf(e, FALSE))
    IN  DBExec(b.sql, b.args)

\* Insert from the Exec call on, for the caller op.
Inserting(op, objs, e, outcome) ==
    /\ outcome # "execErr" => dbNextId <= MaxId
    /\ stmt' = InsertStmt(e)
    /\ dbNextId' = IF outcome = "execErr" THEN dbNextId ELSE dbNextId + 1
    /\ pk' = IF outcome = "ok" THEN genericSetPkValue(e, dbNextId) ELSE pk
    /\ saved' = IF op = "Save" /\ outcome = "ok" THEN saved \cup {e} ELSE saved
    /\ result' = [op |-> op, objs |-> objs, out |-> "",
                  err |-> IF outcome = "ok" THEN "" ELSE outcome]
    /\ UNCHANGED <<dialect, ncols, relations>>
    /\ UNCHANGED bvars
    /\ UNCHANGED xvars

Insert(e, outcome) == Inserting("Insert", <<e>>, e, outcome)

\* InsertAll for two or more entities of one table, up to the Exec call.
InsertAllStmt(objs) ==
    LET cols == Columns(TypeOf[objs[1]], FALSE)
        phs == [i \in 1..Len(objs) |-> RowPlaceholders(Len(cols))]
        \* WithArgs(genericValuesOf(obj, false)): the row's slice is one argument
        args == [i \in 1..Len(objs) |-> Slice(genericValuesOf(objs[i], FALSE))]
        b == InsertBuild(TableOf[TypeOf[objs[1]]], cols, phs, args)
    IN  \* Exec(q, args): the argument slice is one argument
        DBExec(b.sql, << Slice(b.args) >>)

SameTable(objs) == \A i \in 1..Len(objs) : TableOf[TypeOf[objs[i]]] = TableOf[TypeOf[objs[1]]]

InsertAll(objs, outcome) ==
    IF Len(objs) = 1 THEN Inserting("InsertAll", objs, objs[1], outcome)
    ELSE
        /\ outcome # "idErr"
        /\ IF Len(objs) = 0
           THEN /\ outcome = "ok"
                /\ stmt' = NoStmt
                /\ result' = [op |-> "InsertAll", objs |-> objs, out |-> "", err |-> ""]
                /\ UNCHANGED dbNextId
           ELSE IF ~SameTable(objs)
           THEN /\ outcome = "ok"
                /\ stmt' = NoStmt
                /\ result' = [op |-> "InsertAll", objs |-> objs, out |-> "",
                              err |-> "cannot batch insert for two different tables"]
                /\ UNCHANGED dbNextId
           ELSE /\ outcome = "ok" => dbNextId + Len(objs) - 1 <= MaxId
                /\ stmt' = InsertAllStmt(objs)
                /\ dbNextId' = IF outcome = "ok" THEN dbNextId + Len(objs) ELSE dbNextId
                /\ result' = [op |-> "InsertAll", objs |-> objs, out |-> "",
                              err |-> IF outcome = "ok" THEN "" ELSE outcome]
        /\ UNCHANGED <<dialect, ncols, relations, pk, saved>>
        /\ UNCHANGED bvars
        /\ UNCHANGED xvars

\* Update numbering the SET placeholders from 1.
UpdateStmtFromOne(e) ==
    LET T == TypeOf[e]
        ph == Placeholder(1)
        kvs == Columns(T, FALSE)
        vals == genericValuesOf(e, FALSE)
        sets == [i \in 1..Len(kvs) |->
                    [Key |-> kvs[i],
                     Value |-> IF Dialects[dialect].IncludeIndexInPlaceholder
                               THEN Dialects[dialect].PlaceholderChar \o Sprint(1 + (i - 1))
                               ELSE Dialects[dialect].PlaceholderChar]]
        b == UpdateBuild(TableOf[T], Equal(pkName(T), ph), sets,
                         vals \o <<genericGetPKValue(e)>>)
    IN  DBExec(b.sql, b.args)

\* Update, up to the Exec call.
UpdateStmt(e) ==
    LET T == TypeOf[e]
        ph == Placeholder(1)
        kvs == Columns(T, FALSE)
        vals == genericValuesOf(e, FALSE)
        sets == [i \in 1..Len(kvs) |->
                    [Key |-> kvs[i],
                     Value |-> IF Dialects[dialect].IncludeIndexInPlaceholder
                               THEN Dialects[dialect].PlaceholderChar \o Sprint(2 + (i - 1))
                               ELSE Dialects[dialect].PlaceholderChar]]
        b == UpdateBuild(TableOf[T], Equal(pkName(T), ph), sets,
                         vals \o <<genericGetPKValue(e)>>)
    IN  DBExec(b.sql, b.args)

\* An operation that issues one statement and changes nothing in the program.
Issuing(op, objs, out, call, err) ==
    /\ stmt' = call
    /\ result' = [op |-> op, objs |-> objs, out |-> out, err |-> err]
    /\ UNCHANGED <<dialect, ncols, relations, pk, dbNextId, saved>>
    /\ UNCHANGED bvars
    /\ UNCHANGED xvars

Updating(op, e, outcome) ==
    /\ outcome # "idErr"
    /\ Issuing(op, <<e>>, "", UpdateStmt(e), IF outcome = "ok" THEN "" ELSE outcome)

Update(e, outcome) == Updating("Update", e, outcome)

\* Save that always inserts.
SaveInsertOnly(e, outcome) == Inserting("Save", <<e>>, e, outcome)

\* Save: Insert when the primary key is the zero value, Update otherwise.
Save(e, outcome) ==
    IF pk[e] = 0 THEN Inserting("Save", <<e>>, e, outcome)
    ELSE Updating("Save", e, outcome)

\* Delete, up to the Exec call.
DeleteStmt(e) ==
    LET T == TypeOf[e]
        b == DeleteBuild(TableOf[T], Equal(pkName(T), Placeholder(1)), <<genericGetPKValue(e)>>)
    IN  DBExec(b.sql, b.args)

Delete(e, outcome) ==
    /\ outcome # "idErr"
    /\ Issuing("Delete", <<e>>, "", DeleteStmt(e), IF outcome = "ok" THEN "" ELSE outcome)

\* Find[T](id), up to bindContext's QueryContext call.
FindStmt(T, id) ==
    LET b == SelectBuild(Columns(T, TRUE), TableOf[T], Equal(pkName(T), Placeholder(1)), <<V(id)>>)
    IN  DBQueryContext(b.sql, b.args)

Find(T, id, outcome) ==
    Issuing("Find", << >>, T, FindStmt(T, id), IF outcome = "ok" THEN "" ELSE outcome)

\* The relation configurations; a field left empty is defaulted by the relation function.
NoConfig ==
    [ variant |-> "none", PropertyTable |-> << >>, PropertyForeignKey |-> << >>,
      OwnerTable |-> << >>, LocalForeignKey |-> << >>, ForeignColumnName |-> << >>,
      IntermediateTable |-> << >>, IntermediatePropertyID |-> << >>,
      IntermediateOwnerID |-> << >>, ForeignTable |-> << >>, ForeignLookupColumn |-> << >> ]

HasManyConfig == [NoConfig EXCEPT !.variant = "HasMany"]
HasOneConfig == [NoConfig EXCEPT !.variant = "HasOne"]
BelongsToConfig == [NoConfig EXCEPT !.variant = "BelongsTo"]
BelongsToManyConfig == [NoConfig EXCEPT !.variant = "BelongsToMany"]

\* The configurations an entity may declare for a related table.
RelConfigs ==
    { NoConfig, HasManyConfig, HasOneConfig, BelongsToConfig, BelongsToManyConfig,
      [BelongsToManyConfig EXCEPT !.IntermediateTable = <<"post", "_", "comments">>],
      [HasManyConfig EXCEPT !.PropertyTable = <<"remarks">>],
      [HasManyConfig EXCEPT !.PropertyForeignKey = <<"article", "_id">>],
      [HasOneConfig EXCEPT !.PropertyTable = <<"remarks">>,
                           !.PropertyForeignKey = <<"article", "_id">>] }

\* HasMany using whatever configuration is stored, of any variant or none.
HasManyUnchecked(OUT, owner, outcome) ==
    LET c0 == relations[TypeOf[owner]][OUT]
        PropertyTable == IF c0.PropertyTable = << >> THEN TableOf[OUT] ELSE c0.PropertyTable
        PropertyForeignKey ==
            IF c0.PropertyForeignKey = << >> THEN Singular(TableOf[TypeOf[owner]]) \o <<"_id">>
            ELSE c0.PropertyForeignKey
        b == SelectBuild(<< >>, PropertyTable, Equal(PropertyForeignKey, Placeholder(1)),
                         <<genericGetPKValue(owner)>>)
    IN  Issuing("HasMany", <<owner>>, OUT, DBQueryContext(b.sql, b.args),
                IF outcome = "ok" THEN "" ELSE outcome)

\* HasMany[OUT](owner)
HasMany(OUT, owner, outcome) ==
    LET c0 == relations[TypeOf[owner]][OUT]
        ownerTable == TableOf[TypeOf[owner]]
        PropertyTable == IF c0.PropertyTable = << >> THEN TableOf[OUT] ELSE c0.PropertyTable
        PropertyForeignKey ==
            IF c0.PropertyForeignKey = << >> THEN Singular(ownerTable) \o <<"_id">>
            ELSE c0.PropertyForeignKey
        b == SelectBuild(<< >>, PropertyTable, Equal(PropertyForeignKey, Placeholder(1)),
                         <<genericGetPKValue(owner)>>)
    IN  IF c0.variant # "HasMany"
        THEN Issuing("HasMany", <<owner>>, OUT, NoStmt, "wrong config passed for HasMany")
        ELSE IF b.sql = << >>
        THEN Issuing("HasMany", <<owner>>, OUT, NoStmt, "cannot build the query")
        ELSE Issuing("HasMany", <<owner>>, OUT, DBQueryContext(b.sql, b.args),
                     IF outcome = "ok" THEN "" ELSE outcome)

\* HasOne defaulting the foreign key from the property's table.
HasOnePropertyKey(PROPERTY, owner, outcome) ==
    LET c0 == relations[TypeOf[owner]][PROPERTY]
        PropertyTable == IF c0.PropertyTable = << >> THEN TableOf[PROPERTY] ELSE c0.PropertyTable
        PropertyForeignKey ==
            IF c0.PropertyForeignKey = << >> THEN Singular(TableOf[PROPERTY]) \o <<"_id">>
            ELSE c0.PropertyForeignKey
        b == SelectBuild(<< >>, PropertyTable, Equal(PropertyForeignKey, Placeholder(1)),
                         <<genericGetPKValue(owner)>>)
    IN  IF c0.variant # "HasOne"
        THEN Issuing("HasOne", <<owner>>, PROPERTY, NoStmt, "wrong config passed for HasOne")
        ELSE Issuing("HasOne", <<owner>>, PROPERTY, DBQueryContext(b.sql, b.args),
                     IF outcome = "ok" THEN "" ELSE outcome)

\* HasOne[PROPERTY](owner)
HasOne(PROPERTY, owner, outcome) ==
    LET c0 == relations[TypeOf[owner]][PROPERTY]
        ownerTable == TableOf[TypeOf[owner]]
        PropertyTable == IF c0.PropertyTable = << >> THEN TableOf[PROPERTY] ELSE c0.PropertyTable
        PropertyForeignKey ==
            IF c0.PropertyForeignKey = << >> THEN Singular(ownerTable) \o <<"_id">>
            ELSE c0.PropertyForeignKey
        b == SelectBuild(<< >>, PropertyTable, Equal(PropertyForeignKey, Placeholder(1)),
                         <<genericGetPKValue(owner)>>)
    IN  IF c0.variant # "HasOne"
        THEN Issuing("HasOne", <<owner>>, PROPERTY, NoStmt, "wrong config passed for HasOne")
        ELSE IF b.sql = << >>
        THEN Issuing("HasOne", <<owner>>, PROPERTY, NoStmt, "cannot build the query")
        ELSE Issuing("HasOne", <<owner>>, PROPERTY, DBQueryContext(b.sql, b.args),
                     IF outcome = "ok" THEN "" ELSE outcome)

\* BelongsTo's ownerIDidx: the (0-based) index of the last owner field named
\* LocalForeignKey, 0 when there is none.
OwnerIDidx(OWNER, LocalForeignKey) ==
    LET hits == {i \in 1..Len(Fields(OWNER)) : Fields(OWNER)[i] = LocalForeignKey}
    IN  IF hits = {} THEN 0 ELSE (CHOOSE i \in hits : \A j \in hits : j <= i) - 1

\* BelongsTo[OWNER](property)
BelongsTo(OWNER, property, outcome) ==
    LET c0 == relations[TypeOf[property]][OWNER]
        OwnerTable == IF c0.OwnerTable = << >> THEN TableOf[OWNER] ELSE c0.OwnerTable
        LocalForeignKey ==
            IF c0.LocalForeignKey = << >> THEN Singular(TableOf[OWNER]) \o <<"_id">>
            ELSE c0.LocalForeignKey
        ForeignColumnName ==
            IF c0.ForeignColumnName = << >> THEN <<"id">> ELSE c0.ForeignColumnName
        idx == OwnerIDidx(OWNER, LocalForeignKey)
        values == genericValuesOf(property, TRUE)
        b == SelectBuild(<< >>, OwnerTable, Equal(ForeignColumnName, Placeholder(1)),
                         <<values[idx + 1]>>)
    IN  IF c0.variant # "BelongsTo"
        THEN Issuing("BelongsTo", <<property>>, OWNER, NoStmt, "wrong config passed for BelongsTo")
        ELSE IF idx + 1 > Len(values)
        THEN Issuing("BelongsTo", <<property>>, OWNER, NoStmt, "panic: index out of range")
        ELSE Issuing("BelongsTo", <<property>>, OWNER, DBQueryContext(b.sql, b.args),
                     IF outcome = "ok" THEN "" ELSE outcome)

\* BelongsToMany[OWNER](property)
BelongsToMany(OWNER, property, outcome) ==
    LET c0 == relations[TypeOf[property]][OWNER]
        ForeignLookupColumn ==
            IF c0.ForeignLookupColumn = << >> THEN pkName(OWNER) ELSE c0.ForeignLookupColumn
        IntermediatePropertyID ==
            IF c0.IntermediatePropertyID = << >>
            THEN Singular(TableOf[TypeOf[property]]) \o <<"_id">>
            ELSE c0.IntermediatePropertyID
        IntermediateOwnerID ==
            IF c0.IntermediateOwnerID = << >> THEN Singular(TableOf[OWNER]) \o <<"_id">>
            ELSE c0.IntermediateOwnerID
        sql == <<"select", " ">> \o Join(Columns(OWNER, TRUE), <<",">>)
               \o <<" ", "from", " ">> \o TableOf[OWNER]
               \o <<" ", "where", " ">> \o ForeignLookupColumn
               \o <<" ", "IN", " ", "(", "select", " ">> \o IntermediateOwnerID
               \o <<" ", "from", " ">> \o c0.IntermediateTable
               \o <<" ", "where", " ">> \o IntermediatePropertyID
               \o <<" ", "=", " ", "?", ")">>
    IN  IF c0.variant # "BelongsToMany"
        THEN Issuing("BelongsToMany", <<property>>, OWNER, NoStmt, "wrong config passed for HasMany")
        ELSE IF c0.IntermediateTable = << >>
        THEN Issuing("BelongsToMany", <<property>>, OWNER, NoStmt,
                     "cannot infer intermediate table yet")
        ELSE Issuing("BelongsToMany", <<property>>, OWNER,
                     DBQuery(sql, <<genericGetPKValue(property)>>),
                     IF outcome = "ok" THEN "" ELSE outcome)

\* ------------------------------------------------------------- Initialize

ErrNoDialect == "err no dialect matched with driver"

\* getDialect that falls back to MySQL for a driver it does not know.
getDialectLenient(driver) ==
    IF driver \in {"sqlite", "sqlite3"} THEN [dialect |-> "SQLite3", err |-> ""]
    ELSE IF driver = "postgres" THEN [dialect |-> "PostgreSQL", err |-> ""]
    ELSE [dialect |-> "MySQL", err |-> ""]

\* getDialect(driver)
getDialect(driver) ==
    IF driver = "mysql" THEN [dialect |-> "MySQL", err |-> ""]
    ELSE IF driver \in {"sqlite", "sqlite3"} THEN [dialect |-> "SQLite3", err |-> ""]
    ELSE IF driver = "postgres" THEN [dialect |-> "PostgreSQL", err |-> ""]
    ELSE [dialect |-> "", err |-> ErrNoDialect]

\* What opening a database answers.
OpenOutcomes == {"ok", "openErr"}

\* getDB(driver, connectionString): the handle opened for the driver, or an error.
getDB(driver, connectionString, answer) ==
    IF answer = "ok" THEN [db |-> driver, err |-> ""] ELSE [db |-> "", err |-> answer]

ConnNames == {"default", "second"}
NoConnection == [Name |-> "", Connection |-> "", Schemas |-> {}, Dialect |-> ""]

\* initialize(name, dialect, db, entities): the registry with the new connection
\* under name.
initialize(registry, name, dia, db, entities) ==
    [registry EXCEPT ![name] =
        [ Name |-> name, Connection |-> db,
          Schemas |-> {TableOf[entities[i]] : i \in 1..Len(entities)}, Dialect |-> dia ]]

\* A config supplies both a pre-built handle and a dialect.
Prebuilt(conf) == conf.DB # "" /\ conf.Dialect # ""

RECURSIVE InitializeFrom(_, _, _, _, _)
\* Initialize's loop from the i-th config on: the registry, the drivers getDB
\* was called with and the error returned.
InitializeFrom(confs, answers, i, registry, drivers) ==
    IF i > Len(confs) THEN [registry |-> registry, opened |-> drivers, err |-> ""]
    ELSE LET conf == confs[i]
             d == getDialect(conf.Driver)
             h == getDB(conf.Driver, conf.ConnectionString, answers[i])
         IN  IF Prebuilt(conf)
             THEN InitializeFrom(confs, answers, i + 1,
                      initialize(registry, conf.Name, conf.Dialect, conf.DB, conf.Entities),
                      drivers)
             ELSE IF d.err # ""
             THEN [registry |-> registry, opened |-> drivers, err |-> d.err]
             ELSE IF h.err # ""
             THEN [registry |-> registry, opened |-> drivers \cup {conf.Driver}, err |-> h.err]
             ELSE InitializeFrom(confs, answers, i + 1,
                      initialize(registry, conf.Name, d.dialect, h.db, conf.Entities),
                      drivers \cup {conf.Driver})

\* Initialize(confs...)
Initialize(confs, answers) ==
    LET r == InitializeFrom(confs, answers, 1, globalORM, opened)
    IN  /\ globalORM' = r.registry
        /\ opened' = r.opened
        /\ initCall' = [confs |-> confs, answers |-> answers, err |-> r.err]
        /\ result' = [op |-> "Initialize", objs |-> << >>, out |-> "", err |-> r.err]
        /\ stmt' = NoStmt
        /\ UNCHANGED <<dialect, ncols, relations, pk, dbNextId, saved, dbRows, output>>
        /\ UNCHANGED bvars

\* Connection configs: a driver with a connection string, a pre-built handle
\* with a dialect, or a handle alone.
Config(name, driver, db, dia) ==
    [ Name |-> name, Driver |-> driver, ConnectionString |-> "dsn", DB |-> db,
      Dialect |-> dia, Entities |-> <<"Post", "Comment">> ]

Drivers == {"mysql", "sqlite", "sqlite3", "postgres", "oracle"}

Configs ==
    { Config("default", d, "", "") : d \in Drivers }
    \cup { Config("default", "oracle", "db0", "PostgreSQL"), Config("default", "oracle", "db0", ""),
           Config("second", "oracle", "", "") }

FirstConfigs ==
    { Config("default", "mysql", "", ""), Config("default", "oracle", "", ""),
      Config("second", "postgres", "", "") }

\* The argument lists Initialize is called with.
ConfLists ==
    { << >> } \cup { <<c>> : c \in Configs } \cup { <<a, c>> : a \in FirstConfigs, c \in Configs }

\* ------------------------------------------------------ Query and QueryRaw

\* The result sets the database answers with: each row is written as its id.
RowSets == { << >>, <<1>>, <<2, 1>> }

\* What bind answers for a destination that is not a pointer.
BindOutcomes == {"ok", "bindErr", "panic"}

\* The entity instance the binder allocates and fills for one row.
Instance(T, row) == [type |-> T, id |-> row]

\* schema.bind(rows, dest): through a pointer to a sequence, one instance per
\* row is appended to the sequence pointed to. A destination passed by value is
\* a copy of the caller's (nil) slice: nothing bind does reaches the caller's
\* variable, whatever bind answers.
schemaBind(T, rows, dest, outcome) ==
    IF dest.ptr
    THEN [err |-> "", target |-> dest.target \o [i \in 1..Len(rows) |-> Instance(T, rows[i])]]
    ELSE [err |-> IF outcome = "ok" THEN "" ELSE outcome, target |-> dest.target]

\* Query and QueryRaw from the db.Query call on.
Querying(op, OUTPUT, call, rows, outcome, bound) ==
    LET b == schemaBind(OUTPUT, rows, [ptr |-> FALSE, target |-> << >>], bound)
    IN  /\ stmt' = call
        /\ dbRows' = IF outcome = "ok" THEN rows ELSE << >>
        /\ result' = [op |-> op, objs |-> << >>, out |-> OUTPUT,
                      err |-> IF outcome # "ok" THEN outcome ELSE b.err]
        /\ output' = IF outcome = "ok" /\ b.err = "" THEN b.target ELSE << >>
        /\ UNCHANGED <<dialect, ncols, relations, pk, dbNextId, saved>>
        /\ UNCHANGED <<globalORM, opened, initCall>>
        /\ UNCHANGED bvars

\* The statements Query is called with.
QueryStmts(OUTPUT) ==
    { SelectBuild(<< >>, TableOf[OUTPUT], Equal(pkName(OUTPUT), Placeholder(1)), <<V(id)>>) :
        id \in 1..MaxId }

\* Query[OUTPUT](stmt): the argument slice stmt.Build() returns is the one
\* variadic argument of db.Query.
Query(OUTPUT, s, rows, outcome, bound) ==
    Querying("Query", OUTPUT, DBQuery(s.sql, << Slice(s.args) >>), rows, outcome, bound)

\* The statements QueryRaw is called with.
RawQueries ==
    { [sql |-> <<"select", " ", "*", " ", "from", " ", "posts">>, args |-> << >>],
      [sql |-> <<"select", " ", "*", " ", "from", " ", "posts", " ", "where", " ", "id", ">", "?">>,
       args |-> <<V(0)>>] }

\* QueryRaw[OUTPUT](q, args...)
QueryRaw(OUTPUT, r, rows, outcome, bound) ==
    Querying("QueryRaw", OUTPUT, DBQuery(r.sql, r.args), rows, outcome, bound)

\* ------------------------------------------------------------ specifications

\* The argument lists InsertAll is called with.
Batches ==
    { << >>, <<"p1">>, <<"c1">>, <<"p1", "p2">>, <<"p2", "p1">>, <<"p1", "c1">>,
      <<"p1", "p2", "p1">> }

\* A configuration declared by both entity types for each other's table.
Relations(c) ==
    [T \in Types |-> [U \in Types |-> IF T # U THEN c ELSE NoConfig]]

InitBuilder ==
    /\ q = NewQuery
    /\ whereLog = << >>
    /\ joinLog = << >>
    /\ called = {}
    /\ ncalls = 0
    /\ last = NoResult
    /\ dbCall = NoCall

\* After Initialize: a dialect, the entities' schemas and their relations.
InitORM ==
    /\ dialect \in DialectNames
    /\ ncols \in 1..MaxCols
    /\ \E c \in RelConfigs : relations = Relations(c)
    /\ pk \in [Entities -> 0..MaxId]
    /\ dbNextId = 1
    /\ saved = {}
    /\ result = NoORMResult
    /\ stmt = NoStmt

\* Before Initialize: the registry is empty and no query was made.
InitRegistry ==
    /\ globalORM = [n \in ConnNames |-> NoConnection]
    /\ opened = {}
    /\ initCall = [confs |-> << >>, answers |-> << >>, err |-> ""]
    /\ dbRows = << >>
    /\ output = << >>

Init ==
    /\ InitBuilder
    /\ InitORM
    /\ InitRegistry

NextBuilder ==
    \/ \E t \in Tables : Table(t)
    \/ \E c \in ColLists : Select(c)
    \/ \E t \in JoinTables : InnerJoin(t)
    \/ \E t \in JoinTables : RightJoin(t)
    \/ \E t \in JoinTables : LeftJoin(t)
    \/ \E t \in JoinTables : FullOuterJoin(t)
    \/ \E i \in 1..MaxCalls, p \in OnParts : On(i, p)
    \/ \E c \in ColLists : GroupBy(c)
    \/ \E c \in ColLists : OrderBy(c)
    \/ \E p \in PartLists : Where(p)
    \/ \E i \in 1..MaxCalls, p \in ConnParts : And(i, p)
    \/ \E i \in 1..MaxCalls, p \in ConnParts : Or(i, p)
    \/ \E i \in 1..MaxCalls, p \in ConnParts : Not(i, p)
    \/ SQLCall
    \/ \E a \in ArgLists : Exec(a)
    \/ \E c \in Contexts, a \in ArgLists : ExecContext(c, a)
    \/ \E a \in ArgLists : Bind(a)
    \/ \E c \in Contexts, a \in ArgLists : BindContext(c, a)

NextCRUD ==
    \/ \E e \in Entities, o \in ExecOutcomes : Insert(e, o)
    \/ \E objs \in Batches, o \in ExecOutcomes : InsertAll(objs, o)
    \/ \E e \in Entities, o \in ExecOutcomes : Save(e, o)
    \/ \E e \in Entities, o \in ExecOutcomes : Update(e, o)
    \/ \E e \in Entities, o \in ExecOutcomes : Delete(e, o)
    \/ \E T \in Types, id \in 1..MaxId, o \in QueryOutcomes : Find(T, id, o)

NextRelations ==
    \/ \E T \in Types, e \in Entities, o \in QueryOutcomes : HasMany(T, e, o)
    \/ \E T \in Types, e \in Entities, o \in QueryOutcomes : HasOne(T, e, o)
    \/ \E T \in Types, e \in Entities, o \in QueryOutcomes : BelongsTo(T, e, o)
    \/ \E T \in Types, e \in Entities, o \in QueryOutcomes : BelongsToMany(T, e, o)

NextQuery ==
    \/ \E T \in Types : \E s \in QueryStmts(T), r \in RowSets, o \in QueryOutcomes, b \in BindOutcomes :
          Query(T, s, r, o, b)
    \/ \E T \in Types, w \in RawQueries, r \in RowSets, o \in QueryOutcomes, b \in BindOutcomes :
          QueryRaw(T, w, r, o, b)

NextInitialize ==
    \E confs \in ConfLists : \E answers \in [1..Len(confs) -> OpenOutcomes] :
        Initialize(confs, answers)

Next == NextBuilder \/ NextCRUD \/ NextRelations \/ NextQuery \/ NextInitialize

\* The whole library.
Spec == Init /\ [][Next]_vars

\* One query of the builder; the ORM is initialized and idle.
InitQuery ==
    /\ InitBuilder
    /\ dialect = "MySQL" /\ ncols = 1 /\ relations = Relations(NoConfig)
    /\ pk = [e \in Entities |-> 0] /\ dbNextId = 1 /\ saved = {}
    /\ result = NoORMResult /\ stmt = NoStmt
    /\ InitRegistry

SpecBuilder == InitQuery /\ [][NextBuilder]_vars

\* Insert, InsertAll, Save, Update, Delete and Find on new entities (no relation
\* is read); the builder is idle.
InitCRUD ==
    /\ InitBuilder
    /\ dialect \in DialectNames /\ ncols \in 1..MaxCols /\ relations = Relations(NoConfig)
    /\ pk = [e \in Entities |-> 0] /\ dbNextId = 1 /\ saved = {}
    /\ result = NoORMResult /\ stmt = NoStmt
    /\ InitRegistry

SpecCRUD == InitCRUD /\ [][NextCRUD]_vars

\* Initialize on an empty registry, called any number of times.
SpecInitialize == InitQuery /\ [][NextInitialize]_vars

\* Query and QueryRaw on an initialized connection; the builder is idle.
SpecQuery == InitCRUD /\ [][NextQuery]_vars

\* The relation functions on entities read from the database (no entity is
\* written); the builder is idle.
SpecRelations == Init /\ [][NextRelations]_vars

\* ------------------------------------------------------- reading SQL text

StartsWith(s, p) == Len(p) <= Len(s) /\ SubSeq(s, 1, Len(p)) = p

\* The text from position i on.
From(s, i) == SubSeq(s, i, Len(s))

ClauseKeywords == {"ORDER", "GROUP", "INNER", "RIGHT", "LEFT", "FULL"}

\* The WHERE section of a SELECT: from the WHERE keyword up to the space before
\* the next clause keyword, or to the end.
WhereSectionOf(s) ==
    LET w == FirstOf(s, {"WHERE"})
        rest == From(s, w)
        e == FirstOf(rest, ClauseKeywords)
    IN  IF e > Len(rest) THEN rest ELSE SubSeq(rest, 1, e - 2)

\* The positions of atom a in s.
Positions(s, a) == {i \in 1..Len(s) : s[i] = a}

RECURSIVE Chained(_, _, _)
\* Whether text is the fragments log[i..] in order, each written as
\* " <connector> <condition>".
Chained(log, i, text) ==
    IF i > Len(log) THEN text = << >>
    ELSE \E k \in Connectors :
            LET frag == SP \o <<k>> \o SP \o log[i].cond
            IN  StartsWith(text, frag) /\ Chained(log, i + 1, From(text, Len(frag) + 1))

RECURSIVE ChainText(_, _)
\* " K_i c_i" for the calls log[i..], K_i the connector of the i-th call.
ChainText(log, i) ==
    IF i > Len(log) THEN << >>
    ELSE SP \o <<log[i].conn>> \o SP \o log[i].cond \o ChainText(log, i + 1)

Rendered == last.op # "none" /\ last.err = ""

\* The placeholders of a statement: the positions of "?" and "$".
PlaceholderPositions(s) == {i \in 1..Len(s) : s[i] \in {"?", "$"}}

DigitValue(a) == (CHOOSE d \in 1..Len(Digits) : Digits[d] = a) - 1
IsDigit(a) == \E d \in 1..Len(Digits) : Digits[d] = a

RECURSIVE ReadNumber(_, _, _)
\* The number written by the digits from position i on, after the value acc.
ReadNumber(s, i, acc) ==
    IF i <= Len(s) /\ IsDigit(s[i]) THEN ReadNumber(s, i + 1, 10 * acc + DigitValue(s[i]))
    ELSE acc

RECURSIVE NumbersFrom(_, _)
\* The numbers of the "$n" placeholders of s from position i on, in text order.
NumbersFrom(s, i) ==
    IF i > Len(s) THEN << >>
    ELSE IF s[i] = "$" THEN <<ReadNumber(s, i + 1, 0)>> \o NumbersFrom(s, i + 1)
    ELSE NumbersFrom(s, i + 1)

PlaceholderNumbers(s) == NumbersFrom(s, 1)

\* The parts of an UPDATE: between SET and WHERE, and after WHERE.
SetPart(s) == SubSeq(s, FirstOf(s, {"SET"}) + 2, FirstOf(s, {"WHERE"}) - 2)
WherePart(s) == From(s, FirstOf(s, {"WHERE"}) + 2)

StmtKind(c) == IF c.fn = "none" THEN "none" ELSE c.sql[1]

RECURSIVE Flatten(_)
\* The rows' values one after the other.
Flatten(rows) == IF rows = << >> THEN << >> ELSE Head(rows) \o Flatten(Tail(rows))

\* An UPDATE was issued under a dialect that numbers its placeholders.
NumberedUpdate ==
    /\ StmtKind(stmt) = "UPDATE"
    /\ Dialects[dialect].IncludeIndexInPlaceholder

\* The value entity e holds in its i-th non-primary-key column (the key is the
\* first field of both entity types).
ColumnValue(e, i) == V(Base[e] + i + 1)

\* ------------------------------------------------------------------ claims

\* C2: for a query whose table name is empty, SQL() returns an error and the
\* empty string whatever clauses were set, and Exec, ExecContext, Bind and
\* BindContext return that error and make no call to the database handle.
C2_EmptyTableFails ==
    (last.op # "none" /\ q.table = << >>) =>
        /\ last.err = ErrEmptyTable
        /\ last.sql = << >>
        /\ dbCall = NoCall

C2_Witness ==
    /\ last.op = "BindContext"
    /\ q.table = << >>
    /\ q.filters # << >>
    /\ q.joins # << >>
    /\ last.err = ErrEmptyTable

\* C5: in the rendered WHERE section every fragment after the first is prefixed
\* with a connector (AND, OR, NOT) and the fragments are joined by single spaces
\* in insertion order, for any sequence of Where, And, Or and Not calls.
C5_FragmentsConnected ==
    (Rendered /\ whereLog # << >>) =>
        LET head == <<"WHERE">> \o SP \o whereLog[1].cond
            w == WhereSectionOf(last.sql)
        IN  /\ StartsWith(w, head)
            /\ Chained(whereLog, 2, From(w, Len(head) + 1))

\* C6: one Where(c0) call followed by And/Or/Not calls with conditions c1..cn
\* renders exactly "WHERE c0 K1 c1 ... Kn cn", Ki the connector of the i-th call.
C6_SingleWhereChain ==
    (Rendered /\ Cardinality({i \in 1..Len(whereLog) : whereLog[i].conn = ""}) = 1) =>
        WhereSectionOf(last.sql) = <<"WHERE">> \o SP \o whereLog[1].cond \o ChainText(whereLog, 2)

C6_Witness ==
    /\ last.op = "SQL"
    /\ Len(whereLog) = 2
    /\ whereLog[2].conn = "AND"
    /\ last.sql = <<"SELECT", " ", "*", " ", "FROM", " ", "t", " ", "WHERE", " ",
                    "y", " ", "=", " ", "?", " ", "AND", " ", "x", " ", "=", " ", "?">>

\* C7: the joins render in declaration order and after the WHERE, GROUP BY and
\* ORDER BY sections, for every combination of clauses present.
C7_JoinsLastInOrder ==
    (Rendered /\ joinLog # << >>) =>
        LET s == last.sql
            first == FirstOf(s, {"JOIN"})
            kinds == [i \in 1..Len(joinLog) |-> joinLog[i][Len(joinLog[i])]]
        IN  /\ Cardinality(Positions(s, "JOIN")) = Len(joinLog)
            /\ \A i \in 1..Len(joinLog) :
                  \E pos \in Positions(s, "JOIN") :
                      /\ Cardinality({x \in Positions(s, "JOIN") : x <= pos}) = i
                      /\ s[pos - 2] = kinds[i]
            /\ \A k \in Positions(s, "WHERE") \cup Positions(s, "ORDER") \cup Positions(s, "GROUP") :
                  k < first
            /\ ("Where" \in called => Positions(s, "WHERE") # {})
            /\ ("OrderBy" \in called => Positions(s, "ORDER") # {})
            /\ ("GroupBy" \in called => Positions(s, "GROUP") # {})

C7_Witness ==
    /\ last.op = "SQL"
    /\ joinLog = << <<"LEFT">>, <<"INNER">> >>
    /\ "Where" \in called
    /\ last.sql = <<"SELECT", " ", "*", " ", "FROM", " ", "t", " ", "WHERE", " ",
                    "y", " ", "=", " ", "?", " ",
                    "LEFT", " ", "JOIN", " ", "u", " ", "ON", " ", " ",
                    "INNER", " ", "JOIN", " ", "u", " ", "ON", " ">>

\* C8: with a table and no other call SQL() returns exactly "SELECT * FROM t"; a
\* clause keyword appears only if the corresponding call was made, and leaving
\* any of them out is not an error.
C8_OnlyRequestedClauses ==
    (last.op # "none" /\ q.table # << >>) =>
        /\ last.err = ""
        /\ (HasAtom(last.sql, "WHERE") => "Where" \in called)
        /\ (HasAtom(last.sql, "ORDER") => "OrderBy" \in called)
        /\ (HasAtom(last.sql, "GROUP") => "GroupBy" \in called)
        /\ (HasAtom(last.sql, "JOIN") => "Join" \in called)
        /\ (called \subseteq {"Table"} =>
                last.sql = <<"SELECT", " ", "*", " ", "FROM", " ">> \o q.table)

C8_Witness ==
    /\ last.op = "SQL"
    /\ called = {"Table"}
    /\ last.sql = <<"SELECT", " ", "*", " ", "FROM", " ", "t">>

\* C1: in every statement the ORM sends, the number of placeholders equals the
\* number of arguments passed to the database call; InsertAll with k entities of
\* n columns sends k*n placeholders and the k*n values row by row.
C1_PlaceholdersMatchArguments ==
    stmt.fn # "none" =>
        /\ Cardinality(PlaceholderPositions(stmt.sql)) = Len(stmt.args)
        /\ (result.op = "InsertAll" /\ Len(result.objs) >= 2 =>
              LET n == Len(Columns(TypeOf[result.objs[1]], FALSE))
              IN  /\ Len(stmt.args) = Len(result.objs) * n
                  /\ stmt.args = Flatten([i \in 1..Len(result.objs) |->
                                             [j \in 1..n |-> ColumnValue(result.objs[i], j)]]))

\* C3: Update under a numbered-placeholder dialect with n columns writes the
\* WHERE placeholder $1 and the SET placeholders $2 .. $(n+1) in column order,
\* and passes the arguments [set value 1, .., set value n, primary key].
C3_UpdateNumbering ==
    NumberedUpdate =>
        LET e == result.objs[1]
            cols == Columns(TypeOf[e], FALSE)
            n == Len(cols)
        IN  /\ SetPart(stmt.sql) =
                  Join([i \in 1..n |-> cols[i] \o <<"=", "$">> \o Sprint(i + 1)], <<",">>)
            /\ PlaceholderNumbers(SetPart(stmt.sql)) = [i \in 1..n |-> i + 1]
            /\ WherePart(stmt.sql) = <<"id", "=", "$", "1">>
            /\ stmt.args = [i \in 1..n |-> ColumnValue(e, i)] \o <<V(pk[e])>>

C3_Witness ==
    /\ result.op = "Update"
    /\ result.objs = <<"p1">>
    /\ dialect = "PostgreSQL"
    /\ ncols = 2
    /\ pk["p1"] = 1
    /\ stmt.sql = <<"UPDATE", " ", "posts", " ", "SET", " ",
                    "col", "1", "=", "$", "2", ",", "col", "2", "=", "$", "3", " ",
                    "WHERE", " ", "id", "=", "$", "1">>
    /\ stmt.args = <<V(12), V(13), V(1)>>

\* C4: in Update under a numbered-placeholder dialect the k-th argument is the
\* value meant for the placeholder numbered k: each SET column's placeholder
\* number is the position of that column's value, and the WHERE placeholder's
\* number is the position of the primary-key value.
C4_NumbersAlignWithArguments ==
    NumberedUpdate =>
        LET e == result.objs[1]
            setNumbers == PlaceholderNumbers(SetPart(stmt.sql))
            whereNumbers == PlaceholderNumbers(WherePart(stmt.sql))
        IN  /\ \A i \in 1..Len(setNumbers) : stmt.args[setNumbers[i]] = ColumnValue(e, i)
            /\ \A i \in 1..Len(whereNumbers) : stmt.args[whereNumbers[i]] = V(pk[e])

\* C9: Save inserts when the primary key is zero and updates otherwise; a
\* successful inserting Save sets the primary key to the database's last insert
\* id, so a later Save of the same entity updates and never inserts again.
C9_SaveUpserts ==
    [][ result'.op = "Save" =>
            LET e == result'.objs[1]
            IN  /\ pk[e] = 0 => StmtKind(stmt') = "INSERT"
                /\ pk[e] # 0 => StmtKind(stmt') = "UPDATE"
                /\ (pk[e] = 0 /\ result'.err = "") => (pk'[e] = dbNextId /\ pk'[e] # 0)
                /\ e \in saved => StmtKind(stmt') = "UPDATE" ]_vars

C9_Witness ==
    /\ result.op = "Save"
    /\ result.objs[1] \in saved
    /\ result.err = ""
    /\ StmtKind(stmt) = "UPDATE"

RelationOps == {"HasOne", "HasMany", "BelongsTo", "BelongsToMany"}

\* C10: a relation function returns an error and issues no query when the
\* configuration the owner schema stores for the target table is absent or of
\* another variant; so does BelongsToMany when IntermediateTable is empty.
C10_MisconfiguredRelationFails ==
    result.op \in RelationOps =>
        LET c == relations[TypeOf[result.objs[1]]][result.out]
        IN  (\/ c.variant # result.op
             \/ (result.op = "BelongsToMany" /\ c.IntermediateTable = << >>))
            => (result.err # "" /\ stmt = NoStmt)

C10_Witness ==
    /\ result.op = "HasMany"
    /\ result.objs = <<"p1">>
    /\ result.out = "Comment"
    /\ relations["Post"]["Comment"].variant = "HasOne"
    /\ result.err = "wrong config passed for HasMany"
    /\ stmt = NoStmt

\* C11: every statement a relation function issues uses the dialect's
\* placeholder convention: $1 for its single parameter under a dialect that
\* numbers its placeholders, ? otherwise.
C11_RelationsUseDialectPlaceholder ==
    (result.op \in RelationOps /\ stmt.fn # "none") =>
        IF Dialects[dialect].IncludeIndexInPlaceholder
        THEN PlaceholderNumbers(stmt.sql) = <<1>> /\ ~HasAtom(stmt.sql, "?")
        ELSE Cardinality(Positions(stmt.sql, "?")) = 1 /\ ~HasAtom(stmt.sql, "$")

\* The database answered the query of the most recent Query / QueryRaw.
QueryAnswered == result.op \in {"Query", "QueryRaw"} /\ result.err # "err"

\* C12: on success Query and QueryRaw return one entity per row the database
\* returned, in row order; zero rows give an empty sequence and no error.
C12_QueryReturnsRows ==
    QueryAnswered =>
        /\ result.err = "" => output = [i \in 1..Len(dbRows) |-> Instance(result.out, dbRows[i])]
        /\ dbRows = << >> => (result.err = "" /\ output = << >>)

\* The table a SELECT reads from and the column its filter compares.
FromTable(s) == SubSeq(s, FirstOf(s, {"FROM"}) + 2, FirstOf(s, {"WHERE"}) - 2)
FilterColumn(s) == SubSeq(WherePart(s), 1, FirstOf(WherePart(s), {"="}) - 1)

\* The singular of each entity's table name, with the _id suffix.
ConventionalKey == [Post |-> <<"post", "_id">>, Comment |-> <<"comment", "_id">>]
OwnTable == [Post |-> <<"posts">>, Comment |-> <<"comments">>]

\* C13: the query of HasMany and HasOne filters on PropertyForeignKey, by
\* default the singular of the owner's table + "_id" (posts gives post_id),
\* reads from PropertyTable, by default the property entity's own table, uses a
\* field set in the config unchanged, and passes the owner's primary key.
C13_HasDefaults ==
    (result.op \in {"HasMany", "HasOne"} /\ stmt.fn # "none") =>
        LET owner == result.objs[1]
            c == relations[TypeOf[owner]][result.out]
        IN  /\ FilterColumn(stmt.sql) =
                  IF c.PropertyForeignKey = << >> THEN ConventionalKey[TypeOf[owner]]
                  ELSE c.PropertyForeignKey
            /\ FromTable(stmt.sql) =
                  IF c.PropertyTable = << >> THEN OwnTable[result.out] ELSE c.PropertyTable
            /\ stmt.args = <<V(pk[owner])>>

C13_Witness ==
    /\ result.op = "HasOne"
    /\ result.objs = <<"p1">>
    /\ result.out = "Comment"
    /\ relations["Post"]["Comment"] = HasOneConfig
    /\ dialect = "MySQL"
    /\ pk["p1"] = 2
    /\ stmt.sql = <<"SELECT", " ", "*", " ", "FROM", " ", "comments", " ",
                    "WHERE", " ", "post", "_id", "=", "?">>
    /\ stmt.args = <<V(2)>>

\* The driver identifiers Initialize is documented to recognise, with the
\* dialect of each.
DialectOfDriver ==
    [mysql |-> "MySQL", sqlite |-> "SQLite3", sqlite3 |-> "SQLite3", postgres |-> "PostgreSQL"]

\* Config c needs a dialect and a handle from its driver, and the driver is
\* not a recognised one.
Unrecognised(c) == ~Prebuilt(c) /\ c.Driver \notin DOMAIN DialectOfDriver

\* The first i configs of the call were registered: none asked for an
\* unrecognised driver and every handle they needed was opened.
Passed(confs, answers, i) ==
    \A j \in 1..i : ~Unrecognised(confs[j]) /\ (Prebuilt(confs[j]) \/ answers[j] = "ok")

C15_CallerContextReachesDatabase ==
    (last.op \in {"ExecContext", "BindContext"} /\ dbCall # NoCall) => dbCall.ctx = last.ctx

\* The positions of the field named name in the fields of entity type T.
FieldPositions(T, name) == {i \in 1..Len(Fields(T)) : Fields(T)[i] = name}

\* C16: BelongsTo queries the owner table, by default the owner entity's own,
\* filtering ForeignColumnName (default id) by the value the property holds in
\* its column LocalForeignKey (default singular of the owner table + "_id").
C16_BelongsToUsesPropertyKey ==
    (result.op = "BelongsTo" /\ stmt.fn # "none") =>
        LET property == result.objs[1]
            c == relations[TypeOf[property]][result.out]
            key == IF c.LocalForeignKey = << >> THEN ConventionalKey[result.out]
                   ELSE c.LocalForeignKey
        IN  FieldPositions(TypeOf[property], key) # {} =>
              /\ FromTable(stmt.sql) =
                    IF c.OwnerTable = << >> THEN OwnTable[result.out] ELSE c.OwnerTable
              /\ FilterColumn(stmt.sql) =
                    IF c.ForeignColumnName = << >> THEN <<"id">> ELSE c.ForeignColumnName
              /\ \E i \in FieldPositions(TypeOf[property], key) :
                    stmt.args = <<FieldValue(property, i)>>

====
